---------------------------- MODULE Spec2Model ----------------------------
(***************************************************************************)
(* Reconciliation engine of the Stellar-K8s operator: one StellarNode      *)
(* resource, its child resources (PersistentVolumeClaim, ConfigMap,        *)
(* StatefulSet / Deployment, Service, HorizontalPodAutoscaler) and the     *)
(* reconcile function of src/controller/reconciler.rs, one step per        *)
(* awaited cluster-API call.                                               *)
(***************************************************************************)
EXTENDS Integers, Sequences, FiniteSets, TLC

(* ----------------------------- bounds ---------------------------------- *)
\* largest declared spec.replicas
MaxReplicas == 2
\* metadata.generation starts at 1 and is bumped by every spec edit
MaxGeneration == 2
\* operator processes started against the cluster
NumOperators == 2

(* --------------------------- value domains ----------------------------- *)
NodeName == "node"

Operators == 1..NumOperators

NodeTypes == {"Validator", "Horizon", "SorobanRpc"}

RetentionPolicies == {"Delete", "Retain"}

StorageSizes == {"100Gi", "200Gi"}

\* an invalid count and a count above one
ReplicaValues == {-1, MaxReplicas}

SpecSet ==
    [nodeType : NodeTypes,
     network : {"Testnet"},
     replicas : ReplicaValues,
     suspended : BOOLEAN,
     storageClass : {"standard"},
     size : StorageSizes,
     retentionPolicy : RetentionPolicies,
     autoscaling : BOOLEAN]

\* a node as created: storage of StorageConfig::default()'s size
InitSpecSet == {s \in SpecSet : s.size = "100Gi"}

Absent == [exists |-> FALSE]

NoStatus ==
    [phase |-> "", message |-> "", observedGeneration |-> 0,
     replicas |-> 0, readyReplicas |-> 0]

(* ------------------------- crd/types.rs -------------------------------- *)
\* NodeType's Display, then to_lowercase() as standard_labels applies it
to_lowercase(t) ==
    CASE t = "Validator" -> "validator"
      [] t = "Horizon" -> "horizon"
      [] t = "SorobanRpc" -> "sorobanrpc"

passphrase(n) ==
    CASE n = "Mainnet" -> "Public Global Stellar Network ; September 2015"
      [] n = "Testnet" -> "Test SDF Network ; September 2015"
      [] n = "Futurenet" -> "Test SDF Future Network ; October 2022"

(* --------------- crd/stellar_node.rs (not among the sources) ------------ *)
\* StellarNodeSpec::validate: "" when the spec is valid, else the message
ValidationMessage == "replicas must not be negative"

validate(s) == IF s.replicas < 0 THEN ValidationMessage ELSE ""

should_delete_pvc(s) == s.retentionPolicy = "Delete"

(* -------------------- error.rs (not among the sources) ----------------- *)
\* Error::from(finalizer::Error<Error>), on what reconcile returned: the error of
\* the apply or cleanup closure keeps its variant, a failed patch of the
\* finalizer token is a cluster-API error
ErrorFrom(r) ==
    CASE r = "err_validation" -> "ValidationError"
      [] r = "err_kube" -> "KubeError"
      [] r = "err_finalizer" -> "KubeError"

\* Error::is_retriable: cluster-API errors are transient, a ValidationError is not
is_retriable(e) == e = "KubeError"

(* ---------------------- controller/resources.rs ------------------------ *)
standard_labels(s) ==
    [name |-> "stellar-node",
     instance |-> NodeName,
     component |-> to_lowercase(s.nodeType),
     managed_by |-> "stellar-operator",
     node_type |-> s.nodeType]

owner_reference == [kind |-> "StellarNode", name |-> NodeName, controller |-> TRUE]

resource_name(suffix) == <<NodeName, suffix>>

build_pvc(s) ==
    [exists |-> TRUE,
     name |-> resource_name("data"),
     labels |-> standard_labels(s),
     owner_references |-> <<owner_reference>>,
     storage_class_name |-> s.storageClass,
     size |-> s.size]

\* slip: an existing claim is overwritten with the one built from the spec
ensure_pvc_overwrite(s, cur) == build_pvc(s)

\* ensure_pvc: the storage claim after the call, from the one the get found
ensure_pvc(s, cur) == IF cur.exists THEN cur ELSE build_pvc(s)

\* the keys of the ConfigMap's data, each with its value
ConfigData(s) ==
    {<<"NETWORK_PASSPHRASE", passphrase(s.network)>>}
    \cup (CASE s.nodeType = "Validator" -> {<<"stellar-core.cfg", "quorum">>}
            [] s.nodeType = "Horizon" ->
                 {<<"STELLAR_CORE_URL", "core-url">>, <<"INGEST", "true">>}
            [] s.nodeType = "SorobanRpc" -> {<<"STELLAR_CORE_URL", "core-url">>})

\* slip: the ConfigMap is built without an owner reference
build_config_map_unowned(s) ==
    [exists |-> TRUE,
     name |-> resource_name("config"),
     labels |-> standard_labels(s),
     owner_references |-> <<>>,
     data |-> ConfigData(s)]

build_config_map(s) ==
    [exists |-> TRUE,
     name |-> resource_name("config"),
     labels |-> standard_labels(s),
     owner_references |-> <<owner_reference>>,
     data |-> ConfigData(s)]

build_pod_template(s, labels) ==
    [labels |-> labels,
     claim_name |-> resource_name("data"),
     config_map |-> resource_name("config")]

\* slip: the suspended flag is not consulted
DeploymentReplicas_declared(s) == s.replicas

DeploymentReplicas(s) == IF s.suspended THEN 0 ELSE s.replicas

build_deployment(s) ==
    [exists |-> TRUE,
     name |-> NodeName,
     labels |-> standard_labels(s),
     owner_references |-> <<owner_reference>>,
     replicas |-> DeploymentReplicas(s),
     selector |-> standard_labels(s),
     template |-> build_pod_template(s, standard_labels(s))]

\* slip: a validator gets the declared count, like a deployment
StatefulSetReplicas_declared(s) == IF s.suspended THEN 0 ELSE s.replicas

StatefulSetReplicas(s) == IF s.suspended THEN 0 ELSE 1

build_statefulset(s) ==
    [exists |-> TRUE,
     name |-> NodeName,
     labels |-> standard_labels(s),
     owner_references |-> <<owner_reference>>,
     replicas |-> StatefulSetReplicas(s),
     selector |-> standard_labels(s),
     service_name |-> <<NodeName, "headless">>,
     template |-> build_pod_template(s, standard_labels(s))]

ServicePorts(s) ==
    CASE s.nodeType = "Validator" -> <<11625, 11626>>
      [] s.nodeType = "Horizon" -> <<8000>>
      [] s.nodeType = "SorobanRpc" -> <<8000>>

build_service(s) ==
    [exists |-> TRUE,
     name |-> NodeName,
     labels |-> standard_labels(s),
     owner_references |-> <<owner_reference>>,
     selector |-> standard_labels(s),
     ports |-> ServicePorts(s)]

build_hpa(s) ==
    [exists |-> TRUE,
     name |-> resource_name("hpa"),
     labels |-> standard_labels(s),
     owner_references |-> <<owner_reference>>,
     scale_target |-> <<"Deployment", NodeName>>]

\* ensure_hpa: the autoscaler after the call, from the one before it
ensure_hpa(s, cur) ==
    IF s.nodeType \notin {"Horizon", "SorobanRpc"} \/ ~s.autoscaling
    THEN cur
    ELSE build_hpa(s)

\* slip: an object that exists is left as it is
merge_apply_create_only(built, cur) == IF cur.exists THEN cur ELSE built

\* Patch::Apply of the object a builder made, on the current object cur: the
\* fields the operator sets all take the built values, and the model's objects
\* have no other fields
merge_apply(built, cur) == built

\* whether the PatchParams of the merge-apply op carry .force()
force(op) ==
    op \in {"apply_deployment", "apply_statefulset", "apply_service", "apply_hpa"}

\* the errors the merge-apply op can return on the current object cur: the API
\* is unavailable, or, without .force(), another field manager owns a field
\* of the existing object that the patch sets to a different value
ApplyErrors(op, cur) ==
    {"api"} \cup (IF cur.exists /\ ~force(op) THEN {"conflict"} ELSE {})

\* slip: a 404 answer to a delete is returned as an error
delete_result_strict(answer) == answer = "deleted"

\* whether a delete_* function returns Ok(()) on the API's answer
delete_result(answer) == answer \in {"deleted", "not_found"}

(* ---------------------- controller/reconciler.rs ----------------------- *)
\* slip: the message of the write is left out and the ready count is not reset
update_status_partial(o, phase, message, ready_replicas) ==
    [phase |-> phase,
     message |-> "Resources created successfully",
     observedGeneration |-> o.generation,
     replicas |-> IF o.spec.suspended THEN 0 ELSE o.spec.replicas,
     readyReplicas |-> IF o.spec.suspended THEN 0 ELSE o.spec.replicas]

\* slip: replicas takes the observed count instead of the declared one
update_status_swapped(o, phase, message, ready_replicas) ==
    [phase |-> phase,
     message |-> message,
     observedGeneration |-> o.generation,
     replicas |-> ready_replicas,
     readyReplicas |-> ready_replicas]

update_status(o, phase, message, ready_replicas) ==
    [phase |-> phase,
     message |-> message,
     observedGeneration |-> o.generation,
     replicas |-> IF o.spec.suspended THEN 0 ELSE o.spec.replicas,
     readyReplicas |-> ready_replicas]

\* slip: a failed reconcile is requeued like a successful apply cycle
error_policy_thirty(e) == 30

\* slip: the two delays are exchanged
error_policy_swapped(e) == IF is_retriable(e) THEN 60 ELSE 15

\* the retry delay in seconds error_policy answers for error e
error_policy(e) == IF is_retriable(e) THEN 15 ELSE 60

\* slip: every node type gets a Deployment
WorkloadKind_deployment(s) == "Deployment"

\* the workload kind apply_stellar_node ensures for a node type
WorkloadKind(s) == IF s.nodeType = "Validator" THEN "StatefulSet" ELSE "Deployment"

\* slip: the interim Creating write is missing
ApplyEntry_nocreating(s) ==
    IF validate(s) # "" THEN "status_failed"
    ELSE IF s.suspended THEN "status_suspended"
    ELSE "ensure_pvc"

\* where apply_stellar_node starts after validate() and the suspended check
ApplyEntry(s) ==
    IF validate(s) # "" THEN "status_failed"
    ELSE IF s.suspended THEN "status_suspended"
    ELSE "status_creating"

\* slip: the return after the Failed status write is missing
ApplyNextPc_noreturn(p) ==
    CASE p = "status_failed" -> "status_creating"
      [] p = "status_suspended" -> "status_creating"
      [] p = "status_creating" -> "ensure_pvc"
      [] p = "ensure_pvc" -> "ensure_config_map"
      [] p = "ensure_config_map" -> "ensure_workload"
      [] p = "ensure_workload" -> "ensure_service"
      [] p = "ensure_service" -> "get_ready_replicas"
      [] p = "get_ready_replicas" -> "status_final"
      [] p = "status_final" -> "idle"

\* slip: a suspended node goes from the Suspended write to the children
ApplyNextPc_suspended_skip(p) ==
    CASE p = "status_failed" -> "idle"
      [] p = "status_suspended" -> "ensure_pvc"
      [] p = "status_creating" -> "ensure_pvc"
      [] p = "ensure_pvc" -> "ensure_config_map"
      [] p = "ensure_config_map" -> "ensure_workload"
      [] p = "ensure_workload" -> "ensure_service"
      [] p = "ensure_service" -> "get_ready_replicas"
      [] p = "get_ready_replicas" -> "status_final"
      [] p = "status_final" -> "idle"

\* the step of apply_stellar_node that follows step p when p succeeded
ApplyNextPc(p) ==
    CASE p = "status_failed" -> "idle"
      [] p = "status_suspended" -> "status_creating"
      [] p = "status_creating" -> "ensure_pvc"
      [] p = "ensure_pvc" -> "ensure_config_map"
      [] p = "ensure_config_map" -> "ensure_workload"
      [] p = "ensure_workload" -> "ensure_service"
      [] p = "ensure_service" -> "get_ready_replicas"
      [] p = "get_ready_replicas" -> "status_final"
      [] p = "status_final" -> "idle"

FinalPhase(s) == IF s.suspended THEN "Suspended" ELSE "Running"

\* slip: the storage claim is deleted whatever the retention policy
CleanupNextPc_always(p, s) ==
    CASE p = "delete_service" -> "delete_workload"
      [] p = "delete_workload" -> "delete_config_map"
      [] p = "delete_config_map" -> "delete_pvc"
      [] p = "delete_pvc" -> "remove_finalizer"

\* slip: the configuration bundle is deleted before the workload
CleanupNextPc_swapped(p, s) ==
    CASE p = "delete_service" -> "delete_config_map"
      [] p = "delete_config_map" -> "delete_workload"
      [] p = "delete_workload" ->
           IF should_delete_pvc(s) THEN "delete_pvc" ELSE "remove_finalizer"
      [] p = "delete_pvc" -> "remove_finalizer"

\* the step of cleanup_stellar_node that follows step p
CleanupNextPc(p, s) ==
    CASE p = "delete_service" -> "delete_workload"
      [] p = "delete_workload" -> "delete_config_map"
      [] p = "delete_config_map" ->
           IF should_delete_pvc(s) THEN "delete_pvc" ELSE "remove_finalizer"
      [] p = "delete_pvc" -> "remove_finalizer"

\* slip: a failed delete is returned with `?` and ends the cleanup pass
CleanupErrPc_abort(p, s) == "idle"

\* a failed delete is logged and cleanup goes on with the next step
CleanupErrPc(p, s) == CleanupNextPc(p, s)

(* ------------------------------ state ---------------------------------- *)
VARIABLES
    nodeExists,         \* the StellarNode object is stored in the cluster
    deletionTimestamp,  \* metadata.deletionTimestamp is set
    finalizer,          \* STELLAR_NODE_FINALIZER is in metadata.finalizers
    generation,         \* metadata.generation
    spec,               \* the node's spec
    status,             \* the node's status subresource
    pvc, configMap, statefulSet, deployment, service, hpa,  \* child resources
    pc,                 \* position of the running reconcile, "idle" between two
    obj,                \* the node as handed to the running reconcile
    ready,              \* ready_replicas local of apply_stellar_node
    result,             \* what the last reconcile returned, "running" during one
    calls,              \* cluster-API calls the running (or last) reconcile issued
    prev,               \* while an apply cycle or a cleanup pass runs: the cluster
                        \* state at its start, with the spec and result of the
                        \* reconcile before it, and whether somebody else has
                        \* changed a child since
    proc,               \* position of each operator process in main
    crdInstalled        \* the StellarNode resource type is registered

children == <<pvc, configMap, statefulSet, deployment, service, hpa>>

nodeVars == <<nodeExists, deletionTimestamp, finalizer, generation, spec>>

procVars == <<proc, crdInstalled>>

vars == <<nodeExists, deletionTimestamp, finalizer, generation, spec, status,
          pvc, configMap, statefulSet, deployment, service, hpa,
          pc, obj, ready, result, calls, prev, proc, crdInstalled>>

Snapshot ==
    [pvc |-> pvc, configMap |-> configMap, statefulSet |-> statefulSet,
     deployment |-> deployment, service |-> service, hpa |-> hpa,
     status |-> status, spec |-> obj.spec, result |-> result, drift |-> FALSE]

NoPrev ==
    [pvc |-> Absent, configMap |-> Absent, statefulSet |-> Absent,
     deployment |-> Absent, service |-> Absent, hpa |-> Absent,
     status |-> NoStatus, spec |-> [nodeType |-> "none"], result |-> "none",
     drift |-> FALSE]

\* prev after a step that leaves the reconcile at position p
PrevAt(p) == IF p = "idle" THEN NoPrev ELSE prev

\* a node just created in a cluster that holds none of its children
NodeInit ==
    /\ nodeExists = TRUE
    /\ deletionTimestamp = FALSE
    /\ finalizer = FALSE
    /\ generation = 1
    /\ spec \in InitSpecSet
    /\ status = NoStatus
    /\ pvc = Absent /\ configMap = Absent /\ statefulSet = Absent
    /\ deployment = Absent /\ service = Absent /\ hpa = Absent
    /\ pc = "idle"
    /\ obj = [spec |-> spec, generation |-> 1]
    /\ ready = 0
    /\ result = "none"
    /\ calls = <<>>
    /\ prev = NoPrev

\* one operator process has entered the controller loop
Init ==
    /\ NodeInit
    /\ proc = [r \in Operators |-> IF r = 1 THEN "controller" ELSE "start"]
    /\ crdInstalled = TRUE

\* the results of reconcile that are an Err
ErrResults == {"err_validation", "err_kube", "err_finalizer"}

\* the delay in seconds after which the runtime requeues the node, 0 for none:
\* the Action of an Ok result, error_policy's answer for an Err
RequeueAfter ==
    CASE result \in ErrResults -> error_policy(ErrorFrom(result))
      [] result = "requeue_30" -> 30
      [] OTHER -> 0

Call(op, ok) == [op |-> op, ok |-> ok]

\* a call that returned Err: error is what the cluster API answered, "api" for
\* an availability or rate-limit failure, "conflict" for a field-ownership
\* conflict, "not_found" for a 404
Failed(op, error) == [op |-> op, ok |-> FALSE, error |-> error]

\* slip: the error of an awaited call is dropped and the cycle goes on
ApplyFailsWith_dropped(op, error) ==
    /\ calls' = Append(calls, Failed(op, error))
    /\ pc' = ApplyNextPc(pc)
    /\ prev' = PrevAt(ApplyNextPc(pc))
    /\ result' = IF ApplyNextPc(pc) = "idle" THEN "requeue_30" ELSE result

\* an awaited call of the apply path returned an error: `?` returns it
ApplyFailsWith(op, error) ==
    /\ calls' = Append(calls, Failed(op, error))
    /\ pc' = "idle"
    /\ prev' = NoPrev
    /\ result' = "err_kube"

ApplyFails(op) == ApplyFailsWith(op, "api")

(* ------------------- reconcile and the finalizer helper ---------------- *)
\* reconcile is invoked for the node: kube's finalizer() picks the event
Dispatch ==
    /\ \E r \in Operators : proc[r] = "controller"
    /\ pc = "idle"
    /\ nodeExists
    /\ obj' = [spec |-> spec, generation |-> generation]
    /\ calls' = <<>>
    /\ ready' = 0
    /\ UNCHANGED <<procVars, nodeVars, status, children>>

\* slip: a node without the token is applied at once
ReconcileNew_applies ==
    /\ ~deletionTimestamp /\ ~finalizer
    /\ Dispatch
    /\ pc' = ApplyEntry(spec)
    /\ prev' = Snapshot
    /\ result' = "running"

\* no deletion timestamp, no token: finalizer() adds the token and applies nothing
ReconcileNew ==
    /\ ~deletionTimestamp /\ ~finalizer
    /\ Dispatch
    /\ pc' = "add_finalizer"
    /\ prev' = NoPrev
    /\ result' = "running"

\* no deletion timestamp, token attached: Event::Apply
ReconcileApply ==
    /\ ~deletionTimestamp /\ finalizer
    /\ Dispatch
    /\ pc' = ApplyEntry(spec)
    /\ prev' = Snapshot
    /\ result' = "running"

\* deletion timestamp, token attached: Event::Cleanup
ReconcileCleanup ==
    /\ deletionTimestamp /\ finalizer
    /\ Dispatch
    /\ pc' = "delete_service"
    /\ prev' = Snapshot
    /\ result' = "running"

\* deletion timestamp, no token: nothing to do
ReconcileGone ==
    /\ deletionTimestamp /\ ~finalizer
    /\ Dispatch
    /\ pc' = "idle"
    /\ prev' = NoPrev
    /\ result' = "await_change"

AddFinalizer ==
    /\ pc = "add_finalizer"
    /\ pc' = "idle"
    /\ \/ /\ nodeExists
          /\ finalizer' = TRUE
          /\ result' = "await_change"
          /\ calls' = Append(calls, Call("add_finalizer", TRUE))
       \/ /\ result' = "err_finalizer"
          /\ calls' = Append(calls, Failed("add_finalizer", "api"))
          /\ UNCHANGED finalizer
    /\ prev' = NoPrev
    /\ UNCHANGED <<procVars, nodeExists, deletionTimestamp, generation, spec, status,
                   children, obj, ready>>

(* --------------------------- apply_stellar_node ------------------------ *)
\* one update_status call of the apply path, at step p
StatusStep(p, phase, message, rdy, okResult) ==
    /\ pc = p
    /\ \/ /\ status' = update_status(obj, phase, message, rdy)
          /\ calls' = Append(calls, [op |-> "update_status", ok |-> TRUE, phase |-> phase])
          /\ pc' = ApplyNextPc(p)
          /\ prev' = PrevAt(ApplyNextPc(p))
          /\ result' = IF ApplyNextPc(p) = "idle" THEN okResult ELSE result
       \/ /\ ApplyFails("update_status")
          /\ UNCHANGED status
    /\ UNCHANGED <<procVars, nodeVars, children, obj, ready>>

ApplyStatusFailed ==
    /\ pc = "status_failed"
    /\ StatusStep("status_failed", "Failed", validate(obj.spec), 0, "err_validation")

ApplyStatusSuspended ==
    /\ pc = "status_suspended"
    /\ StatusStep("status_suspended", "Suspended", "Node is suspended", 0, "none")

ApplyStatusCreating ==
    /\ pc = "status_creating"
    /\ StatusStep("status_creating", "Creating", "Creating resources", 0, "none")

ApplyStatusFinal ==
    /\ pc = "status_final"
    /\ StatusStep("status_final", FinalPhase(obj.spec),
                  "Resources created successfully", ready, "requeue_30")

EnsurePvc ==
    /\ pc = "ensure_pvc"
    /\ \/ /\ pvc.exists
          /\ pvc' = ensure_pvc(obj.spec, pvc)
          /\ calls' = Append(calls, Call("get_pvc", TRUE))
          /\ pc' = ApplyNextPc(pc)
          /\ UNCHANGED <<result, prev>>
       \/ /\ ~pvc.exists
          /\ pvc' = ensure_pvc(obj.spec, pvc)
          /\ calls' = calls \o <<Call("get_pvc", TRUE), Call("create_pvc", TRUE)>>
          /\ pc' = ApplyNextPc(pc)
          /\ UNCHANGED <<result, prev>>
       \/ /\ ApplyFails("get_pvc")
          /\ UNCHANGED pvc
       \/ /\ ~pvc.exists
          /\ calls' = calls \o <<Call("get_pvc", TRUE), Failed("create_pvc", "api")>>
          /\ pc' = "idle"
          /\ prev' = NoPrev
          /\ result' = "err_kube"
          /\ UNCHANGED pvc
    /\ UNCHANGED <<procVars, nodeVars, status, configMap, statefulSet, deployment, service,
                   hpa, obj, ready>>

EnsureConfigMap ==
    /\ pc = "ensure_config_map"
    /\ \/ /\ configMap' = merge_apply(build_config_map(obj.spec), configMap)
          /\ calls' = Append(calls, Call("apply_config_map", TRUE))
          /\ pc' = ApplyNextPc(pc)
          /\ UNCHANGED <<result, prev>>
       \/ /\ \E error \in ApplyErrors("apply_config_map", configMap) :
                ApplyFailsWith("apply_config_map", error)
          /\ UNCHANGED configMap
    /\ UNCHANGED <<procVars, nodeVars, status, pvc, statefulSet, deployment, service,
                   hpa, obj, ready>>

EnsureWorkload ==
    /\ pc = "ensure_workload"
    /\ \/ /\ WorkloadKind(obj.spec) = "StatefulSet"
          /\ statefulSet' = merge_apply(build_statefulset(obj.spec), statefulSet)
          /\ calls' = Append(calls, Call("apply_statefulset", TRUE))
          /\ pc' = ApplyNextPc(pc)
          /\ UNCHANGED <<deployment, result, prev>>
       \/ /\ WorkloadKind(obj.spec) = "Deployment"
          /\ deployment' = merge_apply(build_deployment(obj.spec), deployment)
          /\ calls' = Append(calls, Call("apply_deployment", TRUE))
          /\ pc' = ApplyNextPc(pc)
          /\ UNCHANGED <<statefulSet, result, prev>>
       \/ /\ WorkloadKind(obj.spec) = "StatefulSet"
          /\ \E error \in ApplyErrors("apply_statefulset", statefulSet) :
                ApplyFailsWith("apply_statefulset", error)
          /\ UNCHANGED <<statefulSet, deployment>>
       \/ /\ WorkloadKind(obj.spec) = "Deployment"
          /\ \E error \in ApplyErrors("apply_deployment", deployment) :
                ApplyFailsWith("apply_deployment", error)
          /\ UNCHANGED <<statefulSet, deployment>>
    /\ UNCHANGED <<procVars, nodeVars, status, pvc, configMap, service, hpa, obj, ready>>

EnsureService ==
    /\ pc = "ensure_service"
    /\ \/ /\ service' = merge_apply(build_service(obj.spec), service)
          /\ calls' = Append(calls, Call("apply_service", TRUE))
          /\ pc' = ApplyNextPc(pc)
          /\ UNCHANGED <<result, prev>>
       \/ /\ \E error \in ApplyErrors("apply_service", service) :
                ApplyFailsWith("apply_service", error)
          /\ UNCHANGED service
    /\ UNCHANGED <<procVars, nodeVars, status, pvc, configMap, statefulSet, deployment,
                   hpa, obj, ready>>

\* slip: a failed read is returned with `?`
ReadFailPc_abort(p) == "idle"

\* a failed read of the workload is logged and counted as 0 ready replicas
ReadFailPc(p) == ApplyNextPc(p)

\* the workload get_ready_replicas reads
ObservedWorkload ==
    IF obj.spec.nodeType = "Validator" THEN statefulSet ELSE deployment

\* status.readyReplicas of the workload is written by the platform: none of its
\* pods is ready yet, or all of them are
ReadyValues(w) == IF w.exists THEN {0, w.replicas} ELSE {0}

GetReadyReplicas ==
    /\ pc = "get_ready_replicas"
    /\ \/ /\ ObservedWorkload.exists
          /\ ready' \in ReadyValues(ObservedWorkload)
          /\ calls' = Append(calls, Call("get_workload", TRUE))
          /\ pc' = ApplyNextPc(pc)
          /\ UNCHANGED <<result, prev>>
       \/ /\ ready' = 0
          /\ calls' = Append(calls, Failed("get_workload", "api"))
          /\ pc' = ReadFailPc(pc)
          /\ result' = IF ReadFailPc(pc) = "idle" THEN "err_kube" ELSE result
          /\ prev' = PrevAt(ReadFailPc(pc))
    /\ UNCHANGED <<procVars, nodeVars, status, children, obj>>

(* -------------------------- cleanup_stellar_node ----------------------- *)
\* one delete call of the cleanup path at step p: the API deletes the object,
\* answers 404 when there is none, or fails
DeleteStep(p, op, child) ==
    /\ pc = p
    /\ \E answer \in {IF child.exists THEN "deleted" ELSE "not_found", "api"} :
         /\ child' = IF answer = "deleted" THEN Absent ELSE child
         /\ IF delete_result(answer)
            THEN /\ calls' = Append(calls, Call(op, TRUE))
                 /\ pc' = CleanupNextPc(p, obj.spec)
            ELSE /\ calls' = Append(calls, Failed(op, answer))
                 /\ pc' = CleanupErrPc(p, obj.spec)
    /\ result' = IF pc' = "idle" THEN "err_kube" ELSE result
    /\ UNCHANGED <<procVars, nodeVars, status, obj, ready, prev>>

DeleteService ==
    /\ DeleteStep("delete_service", "delete_service", service)
    /\ UNCHANGED <<pvc, configMap, statefulSet, deployment, hpa>>

DeleteWorkload ==
    /\ \/ /\ obj.spec.nodeType = "Validator"
          /\ DeleteStep("delete_workload", "delete_statefulset", statefulSet)
          /\ UNCHANGED deployment
       \/ /\ obj.spec.nodeType # "Validator"
          /\ DeleteStep("delete_workload", "delete_deployment", deployment)
          /\ UNCHANGED statefulSet
    /\ UNCHANGED <<pvc, configMap, service, hpa>>

DeleteConfigMap ==
    /\ DeleteStep("delete_config_map", "delete_config_map", configMap)
    /\ UNCHANGED <<pvc, statefulSet, deployment, service, hpa>>

DeletePvc ==
    /\ DeleteStep("delete_pvc", "delete_pvc", pvc)
    /\ UNCHANGED <<configMap, statefulSet, deployment, service, hpa>>

\* cleanup returned Ok: finalizer() removes the token from the node
RemoveFinalizer ==
    /\ pc = "remove_finalizer"
    /\ pc' = "idle"
    /\ \/ /\ finalizer' = FALSE
          /\ result' = "await_change"
          /\ calls' = Append(calls, Call("remove_finalizer", TRUE))
       \/ /\ result' = "err_finalizer"
          /\ calls' = Append(calls, Failed("remove_finalizer", "api"))
          /\ UNCHANGED finalizer
    /\ prev' = NoPrev
    /\ UNCHANGED <<procVars, nodeExists, deletionTimestamp, generation, spec, status,
                   children, obj, ready>>

(* ------------------------ users and the platform ----------------------- *)
\* the fields of the spec that users edit
EditedFields == {"nodeType", "replicas", "suspended", "size"}

\* a user edits one field of the spec of a node that is not being deleted
EditSpec ==
    /\ nodeExists
    /\ ~deletionTimestamp
    /\ generation < MaxGeneration
    /\ \E s \in SpecSet :
         /\ {f \in DOMAIN s : s[f] # spec[f]} \in {{f} : f \in EditedFields}
         /\ spec' = s
    /\ generation' = generation + 1
    /\ UNCHANGED <<procVars, nodeExists, deletionTimestamp, finalizer, status, children,
                   pc, obj, ready, result, calls, prev>>

\* a user deletes the node: the finalizer token defers the hard delete
RequestDelete ==
    /\ nodeExists
    /\ ~deletionTimestamp
    /\ deletionTimestamp' = TRUE
    /\ nodeExists' = finalizer
    /\ UNCHANGED <<procVars, finalizer, generation, spec, status, children,
                   pc, obj, ready, result, calls, prev>>

\* slip: the finalizer token does not hold the hard delete back
HardDelete_ungated ==
    /\ nodeExists
    /\ deletionTimestamp
    /\ nodeExists' = FALSE
    /\ UNCHANGED <<procVars, deletionTimestamp, finalizer, generation, spec, status, children,
                   pc, obj, ready, result, calls, prev>>

\* the platform removes a node that is being deleted and carries no finalizer
HardDelete ==
    /\ nodeExists
    /\ deletionTimestamp
    /\ ~finalizer
    /\ nodeExists' = FALSE
    /\ UNCHANGED <<procVars, deletionTimestamp, finalizer, generation, spec, status, children,
                   pc, obj, ready, result, calls, prev>>

Next ==
    \/ ReconcileNew
    \/ ReconcileApply
    \/ ReconcileCleanup
    \/ ReconcileGone
    \/ AddFinalizer
    \/ ApplyStatusFailed
    \/ ApplyStatusSuspended
    \/ ApplyStatusCreating
    \/ EnsurePvc
    \/ EnsureConfigMap
    \/ EnsureWorkload
    \/ EnsureService
    \/ GetReadyReplicas
    \/ ApplyStatusFinal
    \/ DeleteService
    \/ DeleteWorkload
    \/ DeleteConfigMap
    \/ DeletePvc
    \/ RemoveFinalizer
    \/ EditSpec
    \/ RequestDelete
    \/ HardDelete

Spec == Init /\ [][Next]_vars

(* ------------- the apply path alone, on a spec nobody edits ------------ *)
ApplyNext ==
    \/ ReconcileNew
    \/ ReconcileApply
    \/ AddFinalizer
    \/ ApplyStatusFailed
    \/ ApplyStatusSuspended
    \/ ApplyStatusCreating
    \/ EnsurePvc
    \/ EnsureConfigMap
    \/ EnsureWorkload
    \/ EnsureService
    \/ GetReadyReplicas
    \/ ApplyStatusFinal

\* the last call the reconcile issued succeeded
LastCallOk == calls # <<>> /\ calls[Len(calls)].ok

\* the controller runtime requeues the node after every reconcile (30 s after
\* a success, 15 s or 60 s after an error), and every call that is retried
\* forever succeeds at some point
ApplyFairness ==
    /\ WF_vars(ReconcileNew)
    /\ WF_vars(ReconcileApply)
    /\ WF_vars(GetReadyReplicas)
    /\ SF_vars(AddFinalizer /\ LastCallOk')
    /\ SF_vars(ApplyStatusFailed /\ LastCallOk')
    /\ SF_vars(ApplyStatusSuspended /\ LastCallOk')
    /\ SF_vars(ApplyStatusCreating /\ LastCallOk')
    /\ SF_vars(EnsurePvc /\ LastCallOk')
    /\ SF_vars(EnsureConfigMap /\ LastCallOk')
    /\ SF_vars(EnsureWorkload /\ LastCallOk')
    /\ SF_vars(EnsureService /\ LastCallOk')
    /\ SF_vars(ApplyStatusFinal /\ LastCallOk')

ApplySpec == Init /\ [][ApplyNext]_vars /\ ApplyFairness

(* ------------- drift: other actors change the children ----------------- *)
\* the children are what the builders make of spec s
ChildrenConvergedFor(s) ==
    /\ pvc.exists
    /\ configMap = build_config_map(s)
    /\ service = build_service(s)
    /\ IF s.nodeType = "Validator"
       THEN statefulSet = build_statefulset(s)
       ELSE deployment = build_deployment(s)

\* a child as somebody else has modified it: the workload scaled to another
\* count, the ConfigMap emptied, the Service without ports, the storage claim
\* resized
Modified(kind, c) ==
    CASE kind \in {"statefulSet", "deployment"} ->
           {[c EXCEPT !.replicas = n] : n \in (0..MaxReplicas) \ {c.replicas}}
      [] kind = "configMap" -> {[c EXCEPT !.data = {}]}
      [] kind = "service" -> {[c EXCEPT !.ports = <<>>]}
      [] kind = "pvc" -> {[c EXCEPT !.size = z] : z \in StorageSizes \ {c.size}}

\* the name of the workload variable of spec s
WorkloadVar(s) == IF s.nodeType = "Validator" THEN "statefulSet" ELSE "deployment"

\* somebody else turns the children into the given ones, while the node is Present
DriftTo(newPvc, newConfigMap, newStatefulSet, newDeployment, newService) ==
    /\ nodeExists /\ ~deletionTimestamp
    /\ pvc' = newPvc
    /\ configMap' = newConfigMap
    /\ statefulSet' = newStatefulSet
    /\ deployment' = newDeployment
    /\ service' = newService
    /\ prev' = IF pc = "idle" THEN prev ELSE [prev EXCEPT !.drift = TRUE]
    /\ UNCHANGED <<procVars, nodeVars, status, hpa, pc, obj, ready, result, calls>>

\* somebody deletes the ConfigMap, the workload or the Service of a node whose
\* children are as the operator left them
DriftDelete ==
    /\ ChildrenConvergedFor(spec)
    /\ \/ DriftTo(pvc, Absent, statefulSet, deployment, service)
       \/ /\ WorkloadVar(spec) = "statefulSet"
          /\ DriftTo(pvc, configMap, Absent, deployment, service)
       \/ /\ WorkloadVar(spec) = "deployment"
          /\ DriftTo(pvc, configMap, statefulSet, Absent, service)
       \/ DriftTo(pvc, configMap, statefulSet, deployment, Absent)

\* somebody modifies the ConfigMap, the workload or the Service of such a node
DriftModify ==
    /\ ChildrenConvergedFor(spec)
    /\ \/ \E c \in Modified("configMap", configMap) :
             DriftTo(pvc, c, statefulSet, deployment, service)
       \/ /\ WorkloadVar(spec) = "statefulSet"
          /\ \E c \in Modified("statefulSet", statefulSet) :
               DriftTo(pvc, configMap, c, deployment, service)
       \/ /\ WorkloadVar(spec) = "deployment"
          /\ \E c \in Modified("deployment", deployment) :
               DriftTo(pvc, configMap, statefulSet, c, service)
       \/ \E c \in Modified("service", service) :
             DriftTo(pvc, configMap, statefulSet, deployment, c)

\* somebody resizes the storage claim the operator created
DriftModifyPvc ==
    /\ pvc = build_pvc(spec)
    /\ \E c \in Modified("pvc", pvc) :
         DriftTo(c, configMap, statefulSet, deployment, service)

DriftNext ==
    \/ ReconcileNew
    \/ ReconcileApply
    \/ AddFinalizer
    \/ ApplyStatusFailed
    \/ ApplyStatusSuspended
    \/ ApplyStatusCreating
    \/ EnsurePvc
    \/ EnsureConfigMap
    \/ EnsureWorkload
    \/ EnsureService
    \/ GetReadyReplicas
    \/ ApplyStatusFinal
    \/ DriftDelete
    \/ DriftModify
    \/ DriftModifyPvc

DriftSpec == Init /\ [][DriftNext]_vars

(* ------------------ main.rs: the operator processes -------------------- *)
\* slip: a failed list is logged and the controller loop is entered all the same
run_controller_start_lenient(listed) == "controller"

\* run_controller after the list of the StellarNode type: the controller loop,
\* or Err(Error::ConfigError) returned to main
run_controller_start(listed) == IF listed THEN "controller" ELSE "exit_config"

\* main up to run_controller: the client is created (or main returns the
\* KubeError); the LeaseLock is constructed, which issues no call, and nothing
\* acquires or renews the lease afterwards
Connect(r) ==
    /\ proc[r] = "start"
    /\ \E ok \in BOOLEAN :
         proc' = [proc EXCEPT ![r] = IF ok THEN "run_controller" ELSE "exit_kube"]
    /\ UNCHANGED <<crdInstalled, nodeVars, status, children,
                   pc, obj, ready, result, calls, prev>>

\* run_controller lists the StellarNode type: the list fails when the type is
\* not registered, and can fail when it is
VerifyCrd(r) ==
    /\ proc[r] = "run_controller"
    /\ \E listed \in (IF crdInstalled THEN BOOLEAN ELSE {FALSE}) :
         proc' = [proc EXCEPT ![r] = run_controller_start(listed)]
    /\ UNCHANGED <<crdInstalled, nodeVars, status, children,
                   pc, obj, ready, result, calls, prev>>

\* shutdown_on_signal: the controller loop ends and main returns Ok
Shutdown(r) ==
    /\ proc[r] = "controller"
    /\ proc' = [proc EXCEPT ![r] = "exit_ok"]
    /\ UNCHANGED <<crdInstalled, nodeVars, status, children,
                   pc, obj, ready, result, calls, prev>>

\* no operator process started yet; the type is registered or not
ProcessInit ==
    /\ NodeInit
    /\ proc = [r \in Operators |-> "start"]
    /\ crdInstalled \in BOOLEAN

ProcessNext ==
    \/ \E r \in Operators : Connect(r)
    \/ \E r \in Operators : VerifyCrd(r)
    \/ \E r \in Operators : Shutdown(r)
    \/ ReconcileNew
    \/ ReconcileApply
    \/ AddFinalizer
    \/ ApplyStatusFailed
    \/ ApplyStatusSuspended
    \/ ApplyStatusCreating
    \/ EnsurePvc
    \/ EnsureConfigMap
    \/ EnsureWorkload
    \/ EnsureService
    \/ GetReadyReplicas
    \/ ApplyStatusFinal

ProcessSpec == ProcessInit /\ [][ProcessNext]_vars

(* ------------- creation to deletion of a node nobody edits ------------- *)
DeletionNext ==
    \/ ReconcileNew
    \/ ReconcileApply
    \/ ReconcileCleanup
    \/ ReconcileGone
    \/ AddFinalizer
    \/ ApplyStatusFailed
    \/ ApplyStatusSuspended
    \/ ApplyStatusCreating
    \/ EnsurePvc
    \/ EnsureConfigMap
    \/ EnsureWorkload
    \/ EnsureService
    \/ GetReadyReplicas
    \/ ApplyStatusFinal
    \/ DeleteService
    \/ DeleteWorkload
    \/ DeleteConfigMap
    \/ DeletePvc
    \/ RemoveFinalizer
    \/ RequestDelete
    \/ HardDelete

\* a step of the running reconcile: its awaited call returns, with any outcome
ReconcileStep ==
    \/ AddFinalizer
    \/ ApplyStatusFailed
    \/ ApplyStatusSuspended
    \/ ApplyStatusCreating
    \/ EnsurePvc
    \/ EnsureConfigMap
    \/ EnsureWorkload
    \/ EnsureService
    \/ GetReadyReplicas
    \/ ApplyStatusFinal
    \/ DeleteService
    \/ DeleteWorkload
    \/ DeleteConfigMap
    \/ DeletePvc
    \/ RemoveFinalizer

\* every awaited call returns; a node under deletion that carries the token is
\* reconciled again after every pass (the deletion event, then error_policy's
\* requeue); the patch that removes the token, retried forever, succeeds at
\* some point; the platform removes a node under deletion without finalizers
DeletionFairness ==
    /\ WF_vars(ReconcileStep)
    /\ WF_vars(ReconcileCleanup)
    /\ SF_vars(RemoveFinalizer /\ ~finalizer')
    /\ WF_vars(HardDelete)

DeletionSpec == Init /\ [][DeletionNext]_vars /\ DeletionFairness

(* ------------------------------ properties ----------------------------- *)
ApplyPcs ==
    {"status_failed", "status_suspended", "status_creating", "ensure_pvc",
     "ensure_config_map", "ensure_workload", "ensure_service",
     "get_ready_replicas", "status_final"}

AfterWorkloadPcs == {"ensure_service", "get_ready_replicas", "status_final"}

CleanupPcs ==
    {"delete_service", "delete_workload", "delete_config_map", "delete_pvc",
     "remove_finalizer"}

Ops(cs) == [i \in 1..Len(cs) |-> cs[i].op]

Issued(op) == \E i \in 1..Len(calls) : calls[i].op = op

Succeeded(op) == \E i \in 1..Len(calls) : calls[i].op = op /\ calls[i].ok

\* the last reconcile was an apply cycle that returned Ok
ApplySucceeded == pc = "idle" /\ result = "requeue_30"

\* the workload resources that exist
Workloads ==
    {k \in {"StatefulSet", "Deployment"} :
        IF k = "StatefulSet" THEN statefulSet.exists ELSE deployment.exists}

PrevChildren ==
    <<prev.pvc, prev.configMap, prev.statefulSet, prev.deployment, prev.service,
      prev.hpa>>

Converged ==
    /\ ApplySucceeded
    /\ status.phase = (IF spec.suspended THEN "Suspended" ELSE "Running")
    /\ Workloads = {IF spec.nodeType = "Validator" THEN "StatefulSet" ELSE "Deployment"}
    /\ IF spec.nodeType = "Validator"
       THEN statefulSet.replicas = (IF spec.suspended THEN 0 ELSE 1)
       ELSE deployment.replicas = (IF spec.suspended THEN 0 ELSE spec.replicas)

\* C1: from an empty cluster, with a valid spec that nobody edits, apply cycles
\* whose calls succeed at some point reach a state where the cycle has returned
\* Ok, the phase is Running (Suspended for a suspended node), exactly one
\* workload exists, a StatefulSet for a Validator and a Deployment otherwise,
\* with 0 replicas if suspended, 1 for a Validator, spec.replicas otherwise.
C1_ApplyConverges == (validate(spec) = "") => <>Converged

C1_Witness ==
    /\ Converged
    /\ spec.nodeType = "Validator" /\ spec.replicas = MaxReplicas /\ ~spec.suspended
    /\ statefulSet.replicas = 1

\* the running or last reconcile is an apply cycle on a spec that fails validation
InvalidApplyCycle ==
    /\ validate(obj.spec) # ""
    /\ \/ pc \in ApplyPcs
       \/ pc = "idle" /\ calls # <<>> /\ calls[1].op = "update_status"

\* C2: an apply cycle whose spec fails validation issues one call, the status
\* write of phase Failed with the non-empty validation message, and returns the
\* validation error; it issues no call on a child resource and the children
\* stay as they were.
C2_ValidationFailureStops ==
    /\ [](InvalidApplyCycle =>
            /\ pc \in {"status_failed", "idle"}
            /\ Len(calls) = (IF pc = "idle" THEN 1 ELSE 0)
            /\ pc = "idle" /\ calls[1].ok =>
                 /\ calls[1].phase = "Failed"
                 /\ status.phase = "Failed"
                 /\ status.message # ""
                 /\ result = "err_validation")
    /\ [][(pc = "status_failed") => (children' = children)]_vars

C2_Witness ==
    /\ pc = "idle" /\ result = "err_validation"
    /\ status.phase = "Failed" /\ status.message = ValidationMessage
    /\ \A i \in 1..Len(children) : ~children[i].exists

\* cleanup returned Ok and the finalizer token has been removed
CleanupFinished ==
    /\ pc = "idle"
    /\ calls # <<>>
    /\ calls[Len(calls)].op = "remove_finalizer" /\ calls[Len(calls)].ok

C4_OneWorkload == ~(statefulSet.exists /\ deployment.exists)

\* C5: after a successful apply cycle the autoscaler exists exactly when the
\* node is a Horizon or SorobanRpc node with autoscaling configured.
C5_AutoscalerIffConfigured ==
    ApplySucceeded =>
        (hpa.exists <=>
            obj.spec.nodeType \in {"Horizon", "SorobanRpc"} /\ obj.spec.autoscaling)

\* C6: once the apply path has ensured the workload of a Validator that is not
\* suspended, its StatefulSet has exactly 1 replica, whatever spec.replicas is.
C6_ValidatorOneReplica ==
    (pc \in AfterWorkloadPcs /\ obj.spec.nodeType = "Validator" /\ ~obj.spec.suspended)
        => statefulSet.exists /\ statefulSet.replicas = 1

C6_Witness ==
    /\ pc = "ensure_service"
    /\ obj.spec.nodeType = "Validator" /\ ~obj.spec.suspended
    /\ obj.spec.replicas = MaxReplicas /\ obj.spec.replicas > 1
    /\ statefulSet.replicas = 1

\* the running apply cycle is the first since suspended went from false to true
\* on a node whose last cycle left it Running
SuspendCycle ==
    /\ pc \in ApplyPcs
    /\ prev.result = "requeue_30"
    /\ prev.status.phase = "Running"
    /\ ~prev.spec.suspended
    /\ obj.spec = [prev.spec EXCEPT !.suspended = TRUE]

TheWorkload(s) == IF s.nodeType = "Validator" THEN statefulSet ELSE deployment

\* C7: in the apply cycle that follows suspended: false -> true on a running
\* node, the workload has 0 replicas once it is ensured, the storage claim and
\* the ConfigMap are what they were before the cycle, and a cycle that succeeds
\* on a suspended node leaves the phase Suspended.
C7_SuspendScalesToZero ==
    /\ SuspendCycle =>
         /\ pvc.exists /\ pvc = prev.pvc
         /\ configMap = prev.configMap
         /\ pc \in AfterWorkloadPcs => TheWorkload(obj.spec).replicas = 0
    /\ ApplySucceeded /\ obj.spec.suspended => status.phase = "Suspended"

C7_Witness ==
    /\ SuspendCycle
    /\ pc = "status_final"
    /\ obj.spec.nodeType = "Horizon"
    /\ prev.deployment.replicas = MaxReplicas
    /\ deployment.replicas = 0
    /\ pvc.size = "100Gi"

\* the running apply cycle follows a successful one on the same spec
SecondRun ==
    /\ pc \in ApplyPcs
    /\ prev.result = "requeue_30"
    /\ prev.spec = obj.spec

\* C8 as stated: at every point of the second run the children and the status
\* phase, message and counts are what the first run left.
C8_NoChurnAsStated ==
    SecondRun =>
        /\ children = PrevChildren
        /\ status.phase = prev.status.phase
        /\ status.message = prev.status.message
        /\ status.replicas = prev.status.replicas
        /\ status.readyReplicas = prev.status.readyReplicas

\* C8 amended: the second run leaves every child as the first run left it at
\* each of its points, and its final status write restores the phase, message
\* and replicas of the first run, with the ready count it has just read.
C8_IdempotentApply ==
    /\ [](SecondRun => children = PrevChildren)
    /\ [][(SecondRun /\ pc = "status_final" /\ pc' = "idle" /\ result' = "requeue_30")
            => /\ status'.phase = prev.status.phase
               /\ status'.message = prev.status.message
               /\ status'.replicas = prev.status.replicas
               /\ status'.readyReplicas = ready]_vars

C8_Witness ==
    /\ SecondRun
    /\ pc = "status_final"
    /\ status.phase = "Creating" /\ prev.status.phase = "Running"
    /\ pvc.exists /\ configMap.exists /\ service.exists

ExpectedCleanupOps(s) ==
    <<"delete_service",
      IF s.nodeType = "Validator" THEN "delete_statefulset" ELSE "delete_deployment",
      "delete_config_map">>
    \o (IF s.retentionPolicy = "Delete" THEN <<"delete_pvc">> ELSE <<>>)
    \o <<"remove_finalizer">>

\* the last reconcile was a cleanup pass
CleanupPassEnded == pc = "idle" /\ calls # <<>> /\ calls[1].op = "delete_service"

\* C9: every cleanup pass attempts all its deletes, whichever of them fail,
\* returns Ok, so that the removal of the finalizer token is attempted, and the
\* token is gone when that removal succeeds.
C9_CleanupBestEffort ==
    CleanupPassEnded =>
        /\ Ops(calls) = ExpectedCleanupOps(obj.spec)
        /\ result \in {"await_change", "err_finalizer"}
        /\ calls[Len(calls)].ok => ~finalizer /\ result = "await_change"

C9_Witness ==
    /\ CleanupPassEnded
    /\ ~finalizer
    /\ obj.spec.retentionPolicy = "Delete"
    /\ \A i \in 1..(Len(calls) - 1) : ~calls[i].ok
    /\ service.exists /\ pvc.exists

\* C10: at every point of a cleanup pass the delete calls issued so far are, in
\* this order, Service, workload, ConfigMap and, under Delete only, the storage
\* claim; the step the pass is at is the next one of that order.
C10_CleanupOrder ==
    (pc \in CleanupPcs \/ CleanupPassEnded) =>
        /\ Len(calls) <= Len(ExpectedCleanupOps(obj.spec))
        /\ \A i \in 1..Len(calls) : calls[i].op = ExpectedCleanupOps(obj.spec)[i]
        /\ pc \in CleanupPcs =>
             pc = (IF ExpectedCleanupOps(obj.spec)[Len(calls) + 1]
                        \in {"delete_statefulset", "delete_deployment"}
                   THEN "delete_workload"
                   ELSE ExpectedCleanupOps(obj.spec)[Len(calls) + 1])

C10_Witness ==
    /\ pc = "remove_finalizer"
    /\ Ops(calls) = <<"delete_service", "delete_deployment", "delete_config_map",
                      "delete_pvc">>
    /\ ~pvc.exists /\ ~deployment.exists

\* C11: a cleanup pass of a node with autoscaling configured issues, as its last
\* delete, the delete of the autoscaler, and when no call of the pass failed no
\* autoscaler is left.
C11_AutoscalerDeletedLast ==
    (CleanupPassEnded /\ obj.spec.autoscaling) =>
        /\ Issued("delete_hpa")
        /\ (\A i \in 1..Len(calls) : calls[i].ok) => ~hpa.exists

\* the calls of an apply cycle on spec s, in order, when every call succeeds;
\* created tells whether the storage claim had to be created
ExpectedApplyOps(s, created) ==
    IF validate(s) # "" THEN <<"update_status">>
    ELSE (IF s.suspended THEN <<"update_status">> ELSE <<>>)
         \o <<"update_status", "get_pvc">>
         \o (IF created THEN <<"create_pvc">> ELSE <<>>)
         \o <<"apply_config_map",
              IF s.nodeType = "Validator" THEN "apply_statefulset" ELSE "apply_deployment",
              "apply_service", "get_workload", "update_status">>

IsPrefix(a, b) == Len(a) <= Len(b) /\ \A i \in 1..Len(a) : a[i] = b[i]

\* the running or last reconcile is an apply cycle
ApplyCycle == pc \in ApplyPcs \/ (pc = "idle" /\ calls # <<>> /\ calls[1].op = "update_status")

\* C12: the calls of an apply cycle are a prefix of: status writes, get (and
\* create) of the storage claim, apply of the ConfigMap, of the workload, of the
\* Service, read of the ready count, final status write; only the last call can
\* have failed (the read of the ready count apart), and then the cycle has
\* ended and returned the error.
C12_ApplyOrderAndAbort ==
    ApplyCycle =>
        /\ \E created \in BOOLEAN : IsPrefix(Ops(calls), ExpectedApplyOps(obj.spec, created))
        /\ \A i \in 1..Len(calls) :
             (~calls[i].ok /\ calls[i].op # "get_workload") =>
                 /\ i = Len(calls)
                 /\ pc = "idle"
                 /\ result = "err_kube"

C12_Witness ==
    /\ pc = "idle" /\ result = "err_kube"
    /\ Ops(calls) = <<"update_status", "get_pvc", "create_pvc", "apply_config_map",
                      "apply_deployment">>
    /\ ~calls[Len(calls)].ok
    /\ pvc.exists /\ configMap.exists /\ ~deployment.exists /\ ~service.exists
    /\ status.phase = "Creating"


\* C13: an apply cycle that has not completed leaves status.observedGeneration
\* at the value it had when the cycle started, and observedGeneration equal to
\* metadata.generation means the children are converged for the current spec.
C13_ObservedGenerationOnSuccess ==
    /\ pc \in ApplyPcs => status.observedGeneration = prev.status.observedGeneration
    /\ (nodeExists /\ status.observedGeneration = generation) => ChildrenConvergedFor(spec)

C15_ClaimGetOrCreate ==
    /\ (pc \in ApplyPcs /\ prev.pvc.exists) => (pvc = prev.pvc /\ ~Issued("create_pvc"))
    /\ (pc \in ApplyPcs /\ Issued("create_pvc")) => ~prev.pvc.exists
    /\ (ApplyCycle /\ calls # <<>> /\ calls[Len(calls)] = Failed("get_pvc", "api")) =>
           (pc = "idle" /\ result = "err_kube" /\ ~Issued("create_pvc"))

C15_Witness ==
    /\ pc = "ensure_config_map"
    /\ Succeeded("get_pvc") /\ ~Issued("create_pvc")
    /\ prev.pvc.exists
    /\ obj.spec.size = "200Gi" /\ pvc.size = "100Gi"

\* C16: no merge-apply of a child (ConfigMap, workload, Service) returns a
\* field-ownership conflict: the apply is forced and reclaims the field.
C16_ForcedOwnership ==
    \A i \in 1..Len(calls) : ~calls[i].ok => calls[i].error # "conflict"

\* the running cleanup pass started on a node whose children it deletes were
\* all absent already
DuplicateCleanup ==
    /\ pc \in CleanupPcs
    /\ ~prev.service.exists
    /\ ~prev.configMap.exists
    /\ ~(IF obj.spec.nodeType = "Validator" THEN prev.statefulSet ELSE prev.deployment).exists
    /\ should_delete_pvc(obj.spec) => ~prev.pvc.exists

\* C17: no delete call fails on a not-found answer; a cleanup pass over a node
\* that was cleaned up already changes no child, and a call of it fails only
\* when the API itself fails.
C17_DeleteIdempotent ==
    /\ \A i \in 1..Len(calls) : ~calls[i].ok => calls[i].error # "not_found"
    /\ DuplicateCleanup =>
         /\ children = PrevChildren
         /\ \A i \in 1..Len(calls) : calls[i].ok \/ calls[i].error = "api"

C17_Witness ==
    /\ DuplicateCleanup
    /\ pc = "remove_finalizer"
    /\ prev.result = "err_finalizer"
    /\ Ops(calls) = <<"delete_service", "delete_statefulset", "delete_config_map",
                      "delete_pvc">>
    /\ \A i \in 1..Len(calls) : calls[i].ok

C19_DeletionCompletes ==
    (deletionTimestamp /\ finalizer) ~> (~finalizer /\ ~nodeExists)

C19_Witness ==
    /\ ~nodeExists /\ ~finalizer
    /\ CleanupPassEnded
    /\ obj.spec.retentionPolicy = "Delete"
    /\ \A i \in 1..(Len(calls) - 1) : ~calls[i].ok
    /\ service.exists /\ configMap.exists /\ pvc.exists

\* the read of the workload's ready count failed in the running or last cycle
ReadFailed == \E i \in 1..Len(calls) : calls[i].op = "get_workload" /\ ~calls[i].ok

\* C20: after a failed read of the workload the apply cycle goes on to the final
\* status write with 0 ready replicas; when that write succeeds the cycle
\* returns Ok with phase Running (Suspended for a suspended node) and
\* readyReplicas 0; no cycle ends on the read.
C20_ReadFailureCountsZero ==
    /\ (pc = "status_final" /\ ReadFailed) => ready = 0
    /\ (ApplyCycle /\ pc = "idle" /\ ReadFailed /\ calls[Len(calls)].ok) =>
         /\ result = "requeue_30"
         /\ status.phase = FinalPhase(obj.spec)
         /\ status.readyReplicas = 0
    /\ (ApplyCycle /\ pc = "idle") => calls[Len(calls)].op # "get_workload"

C20_Witness ==
    /\ ApplySucceeded
    /\ ReadFailed
    /\ status.phase = "Running" /\ status.readyReplicas = 0
    /\ deployment.exists /\ deployment.replicas = MaxReplicas

\* C21 as stated: every apply cycle, whether it succeeded or failed, ends with
\* the node requeued after 30 seconds.
C21_AlwaysThirtyAsStated ==
    (ApplyCycle /\ pc = "idle") => RequeueAfter = 30

\* C21 amended: an apply cycle that succeeded ends with the node requeued after
\* 30 seconds; one that failed is requeued after the delay of the error policy,
\* 15 or 60 seconds.
C21_ThirtyOnSuccess ==
    (ApplyCycle /\ pc = "idle") =>
        /\ result \in {"requeue_30"} \cup ErrResults
        /\ result = "requeue_30" <=>
             (calls[Len(calls)].ok /\ Len(calls) > 1 /\ validate(obj.spec) = "")
        /\ result = "requeue_30" => RequeueAfter = 30
        /\ result \in ErrResults => RequeueAfter \in {15, 60}

C21_Witness ==
    /\ ApplyCycle /\ pc = "idle"
    /\ result = "err_kube"
    /\ calls[Len(calls)].op = "apply_service"
    /\ RequeueAfter = 15

\* the operator processes that run the controller loop
Controllers == {r \in Operators : proc[r] = "controller"}

\* C22: at most one operator process runs the controller loop at any time.
C22_OneLeaderReconciles == Cardinality(Controllers) <= 1

\* C23: when the StellarNode type is not registered no process enters the
\* controller loop and no reconcile is invoked; a process whose list failed
\* has returned the configuration error, and stays returned.
C23_NoCrdNoReconcile ==
    /\ [](~crdInstalled =>
            /\ \A r \in Operators : proc[r] \in {"start", "run_controller", "exit_kube", "exit_config"}
            /\ pc = "idle" /\ calls = <<>> /\ result = "none"
            /\ status = NoStatus /\ ~finalizer)
    /\ [][\A r \in Operators :
            /\ (proc[r] = "run_controller" /\ ~crdInstalled /\ proc'[r] # proc[r])
                  => proc'[r] = "exit_config"
            /\ proc[r] = "exit_config" => proc'[r] = "exit_config"]_vars

C23_Witness ==
    /\ ~crdInstalled
    /\ \A r \in Operators : proc[r] = "exit_config"
    /\ pc = "idle" /\ calls = <<>>

\* the child resources that exist, the autoscaler apart
ExistingChildren ==
    {c \in {pvc, configMap, statefulSet, deployment, service} : c.exists}

\* C24: after a successful apply cycle on the node's current spec every child
\* that exists carries standard_labels of the current spec, and the selector of
\* every workload, its pod-template labels and the selector of the Service are
\* that label set.
C24_SharedLabels ==
    (ApplySucceeded /\ obj.spec = spec) =>
        /\ \A c \in ExistingChildren : c.labels = standard_labels(spec)
        /\ \A w \in {statefulSet, deployment} :
             w.exists => /\ w.selector = standard_labels(spec)
                         /\ w.template.labels = standard_labels(spec)
        /\ service.selector = standard_labels(spec)

Phases == {"Creating", "Suspended", "Failed", "Running"}

\* the messages apply_stellar_node writes with a phase
MessagesOf(phase) ==
    CASE phase = "Failed" -> {ValidationMessage}
      [] phase = "Creating" -> {"Creating resources"}
      [] phase = "Suspended" -> {"Node is suspended", "Resources created successfully"}
      [] phase = "Running" -> {"Resources created successfully"}

\* C26: a status that was written has one of the four phases, the message that
\* belongs to that phase and, for Creating and Failed, a ready count of 0; every
\* write sets replicas from the spec of the reconciled node and readyReplicas
\* from the write alone (the count just read for the final write, 0 otherwise).
C26_StatusSnapshot ==
    /\ [](status # NoStatus =>
            /\ status.phase \in Phases
            /\ status.message \in MessagesOf(status.phase)
            /\ status.phase \in {"Creating", "Failed"} => status.readyReplicas = 0)
    /\ [][(Len(calls') = Len(calls) + 1 /\ calls'[Len(calls')].op = "update_status"
             /\ calls'[Len(calls')].ok) =>
            (/\ status'.phase = calls'[Len(calls')].phase
             /\ status'.replicas = (IF obj.spec.suspended THEN 0 ELSE obj.spec.replicas)
             /\ status'.readyReplicas = (IF pc = "status_final" THEN ready ELSE 0))]_vars

C26_Witness ==
    /\ pc = "ensure_pvc"
    /\ status.phase = "Creating" /\ status.message = "Creating resources"
    /\ status.readyReplicas = 0 /\ status.replicas = 0
    /\ prev.status.phase = "Running" /\ prev.status.readyReplicas = MaxReplicas
    /\ prev.status.replicas = MaxReplicas

\* C27: a successful apply cycle during which nobody else changed a child
\* leaves the ConfigMap, the workload and the Service as the builders make them
\* from the spec, whatever they were when the cycle started (deleted, modified),
\* and leaves a storage claim that existed when it started as it was.
C27_DriftHealed ==
    [][(pc = "status_final" /\ pc' = "idle" /\ result' = "requeue_30" /\ ~prev.drift) =>
         (/\ configMap' = build_config_map(obj.spec)
          /\ service' = build_service(obj.spec)
          /\ IF obj.spec.nodeType = "Validator"
             THEN statefulSet' = build_statefulset(obj.spec)
             ELSE deployment' = build_deployment(obj.spec)
          /\ prev.pvc.exists => pvc' = prev.pvc)]_vars

C27_Witness ==
    /\ pc = "status_final" /\ ~prev.drift
    /\ obj.spec.nodeType = "Horizon" /\ ~obj.spec.suspended
    /\ prev.deployment.exists /\ prev.deployment.replicas = 0
    /\ deployment = build_deployment(obj.spec) /\ deployment.replicas = MaxReplicas
    /\ prev.pvc.exists /\ prev.pvc.size # obj.spec.size /\ pvc = prev.pvc

\* the children now, as a record
Current ==
    [pvc |-> pvc, configMap |-> configMap, statefulSet |-> statefulSet,
     deployment |-> deployment, service |-> service, hpa |-> hpa]

\* the children a failure-free apply cycle on the valid spec s leaves, from the
\* children c it starts with
ApplyResult(s, c) ==
    [pvc |-> ensure_pvc(s, c.pvc),
     configMap |-> build_config_map(s),
     statefulSet |-> IF s.nodeType = "Validator" THEN build_statefulset(s)
                     ELSE c.statefulSet,
     deployment |-> IF s.nodeType = "Validator" THEN c.deployment
                    ELSE build_deployment(s),
     service |-> build_service(s),
     hpa |-> c.hpa]

\* C28: at every point of an apply cycle, so wherever it may abort, a
\* failure-free cycle on the same spec would leave the children that it would
\* have left from the start of the cycle; a cycle that has passed its child
\* steps has left exactly those children, and its final status write is the
\* same whatever came before, but for the ready count it has just read.
C28_ResumableApply ==
    /\ [](pc \in ApplyPcs =>
            ApplyResult(obj.spec, Current) = ApplyResult(obj.spec, prev))
    /\ [](pc = "status_final" => Current = ApplyResult(obj.spec, prev))
    /\ [][(pc = "status_final" /\ pc' = "idle" /\ result' = "requeue_30") =>
            status' = [phase |-> FinalPhase(obj.spec),
                       message |-> "Resources created successfully",
                       observedGeneration |-> obj.generation,
                       replicas |-> IF obj.spec.suspended THEN 0 ELSE obj.spec.replicas,
                       readyReplicas |-> ready]]_vars

C28_Witness ==
    /\ pc = "status_final"
    /\ prev.result = "err_kube" /\ prev.spec = obj.spec
    /\ prev.pvc.exists /\ prev.configMap.exists /\ ~prev.service.exists
    /\ ~prev.statefulSet.exists /\ ~prev.deployment.exists
    /\ Current = ApplyResult(obj.spec, NoPrev)

\* C29 as stated: while the apply path runs the node carries the token and has
\* no deletion timestamp; while the cleanup path runs it has a deletion
\* timestamp and the token.
C29_PathsAsStated ==
    /\ pc \in ApplyPcs => (finalizer /\ ~deletionTimestamp)
    /\ pc \in CleanupPcs => (finalizer /\ deletionTimestamp)

\* C29 amended: the apply path starts only on a node that carries the token and
\* has no deletion timestamp and the cleanup path only on one that has both;
\* the token stays attached while either runs, and the deletion timestamp while
\* cleanup runs; the reconcile that attaches the token changes no child and no
\* status; children change only in the steps of the two paths.
C29_PathsByNodeAtStart ==
    /\ [][(pc = "idle" /\ pc' \in ApplyPcs) => (finalizer /\ ~deletionTimestamp)]_vars
    /\ [][(pc = "idle" /\ pc' \in CleanupPcs) => (finalizer /\ deletionTimestamp)]_vars
    /\ [](pc \in ApplyPcs \cup CleanupPcs => finalizer)
    /\ [](pc \in CleanupPcs => deletionTimestamp)
    /\ [][(pc = "add_finalizer" \/ pc' = "add_finalizer") =>
            (children' = children /\ status' = status)]_vars
    /\ [][(children' # children) => (pc \in ApplyPcs \cup CleanupPcs)]_vars

C29_Witness ==
    /\ pc = "ensure_service"
    /\ deletionTimestamp /\ finalizer /\ nodeExists
    /\ Succeeded("apply_deployment") /\ deployment.exists

ChildOps ==
    {"get_pvc", "create_pvc", "apply_config_map", "apply_statefulset",
     "apply_deployment", "apply_service"}

\* C30: a status write of phase Failed is issued only by a cycle whose spec
\* fails validation; a cycle that ended on the error of a child step wrote
\* Creating as its last status, and Creating is the phase left on the node.
C30_FailedOnlyOnValidation ==
    /\ \A i \in 1..Len(calls) :
         (calls[i].op = "update_status" /\ calls[i].ok /\ calls[i].phase = "Failed")
             => validate(obj.spec) # ""
    /\ (pc = "status_failed") => validate(obj.spec) # ""
    /\ (pc = "idle" /\ calls # <<>> /\ ~calls[Len(calls)].ok
            /\ calls[Len(calls)].op \in ChildOps) =>
         /\ result = "err_kube"
         /\ status.phase = "Creating"
         /\ \E i \in 1..Len(calls) :
              /\ calls[i].op = "update_status" /\ calls[i].phase = "Creating"
              /\ \A j \in (i + 1)..Len(calls) : calls[j].op # "update_status"

C30_Witness ==
    /\ ApplyCycle /\ pc = "idle" /\ result = "err_kube"
    /\ calls[Len(calls)].op = "apply_statefulset" /\ ~calls[Len(calls)].ok
    /\ status.phase = "Creating"
    /\ obj.spec.suspended
    /\ pvc.exists /\ configMap.exists /\ ~statefulSet.exists

\* a cleanup pass is running or was the last reconcile
CleanupPass == pc \in CleanupPcs \/ CleanupPassEnded

\* C31: in every state of a cleanup pass, while the workload of the node's
\* kind exists, the ConfigMap and the storage claim its pod template mounts
\* exist too, also after a failed delete of the workload.
C31_MountsOutliveWorkload ==
    (CleanupPass /\ ObservedWorkload.exists)
        => (configMap.exists /\ pvc.exists)


\* C32: once a cleanup pass in which every delete call succeeded has ended, no
\* child the controller created for the node is left, but for the storage
\* claim under retention policy Retain.
C32_NoOrphans ==
    (CleanupPassEnded /\ \A i \in 1..Len(calls) : calls[i].ok) =>
        /\ ~service.exists /\ ~statefulSet.exists /\ ~deployment.exists
        /\ ~configMap.exists /\ ~hpa.exists
        /\ should_delete_pvc(obj.spec) => ~pvc.exists


\* C33 as stated: after every successful apply cycle status.replicas equals
\* the replica count the cycle applied to the node's workload.
C33_StatusReplicasApplied ==
    ApplySucceeded => status.replicas = ObservedWorkload.replicas

\* C33: after every successful apply cycle status.replicas is the declared
\* count, 0 when suspended; the Deployment of a Horizon or SorobanRpc node
\* was applied with that count, the StatefulSet of a Validator with 0 when
\* suspended and 1 otherwise, which is status.replicas only when 1 is declared.
C33_StatusReplicasDeclared ==
    ApplySucceeded =>
        /\ status.replicas = (IF obj.spec.suspended THEN 0 ELSE obj.spec.replicas)
        /\ obj.spec.nodeType # "Validator" => deployment.replicas = status.replicas
        /\ obj.spec.nodeType = "Validator" =>
             /\ statefulSet.replicas = (IF obj.spec.suspended THEN 0 ELSE 1)
             /\ (obj.spec.suspended \/ obj.spec.replicas = 1)
                    <=> (statefulSet.replicas = status.replicas)

C33_Witness ==
    /\ ApplySucceeded
    /\ obj.spec.nodeType = "Validator" /\ ~obj.spec.suspended
    /\ obj.spec.replicas = MaxReplicas
    /\ status.replicas = MaxReplicas /\ status.phase = "Running"
    /\ statefulSet.replicas = 1


InterimStatusPcs == {"status_suspended", "status_creating"}

\* the successful Creating write is call j of the cycle
CreatingWrittenAt(j) ==
    /\ calls[j].op = "update_status" /\ calls[j].ok /\ calls[j].phase = "Creating"

\* C34: in a cycle that passed validation every child call comes after a
\* successful Creating write, and a failed Suspended or Creating write ends
\* the cycle with that error, the children being what they were and no child
\* call having been issued.
C34_CreatingBeforeChildren ==
    /\ [](\A i \in 1..Len(calls) :
            calls[i].op \in ChildOps => \E j \in 1..(i - 1) : CreatingWrittenAt(j))
    /\ [](pc \in ApplyPcs \ ({"status_failed"} \cup InterimStatusPcs)
            => \E j \in 1..Len(calls) : CreatingWrittenAt(j))
    /\ [][(pc \in InterimStatusPcs) => (children' = children)]_vars
    /\ [][(pc \in InterimStatusPcs /\ calls' # calls /\ ~calls'[Len(calls')].ok) =>
            (/\ pc' = "idle" /\ result' = "err_kube"
             /\ calls'[Len(calls')].op = "update_status"
             /\ \A i \in 1..Len(calls') : calls'[i].op \notin ChildOps)]_vars

C34_Witness ==
    /\ pc = "idle" /\ result = "err_kube"
    /\ Len(calls) = 2
    /\ calls[1] = [op |-> "update_status", ok |-> TRUE, phase |-> "Suspended"]
    /\ calls[2].op = "update_status" /\ ~calls[2].ok
    /\ status.phase = "Suspended"
    /\ ~pvc.exists /\ ~configMap.exists /\ ~statefulSet.exists /\ ~deployment.exists
    /\ ~service.exists


\* a name as its parts, joined by "-" in the cluster: the name of a child that
\* carries the node's own name is the one part
NameOfService(svc) == <<svc.name>>

\* C35: after a successful apply cycle every resource name the node's workload
\* refers to is the name of a child the apply path has ensured: the data volume
\* claim, the config volume's ConfigMap and, for a StatefulSet, the governing
\* Service.
C35_ReferencesEnsured ==
    ApplySucceeded =>
        /\ ObservedWorkload.exists
        /\ pvc.exists /\ ObservedWorkload.template.claim_name = pvc.name
        /\ configMap.exists /\ ObservedWorkload.template.config_map = configMap.name
        /\ obj.spec.nodeType = "Validator" =>
             /\ service.exists
             /\ statefulSet.service_name = NameOfService(service)

=============================================================================
